---- MODULE Spec2Model ----
(***************************************************************************)
(* Model of @shipstatic/types (src/src/index.ts): the unified ShipError    *)
(* value with its factories, categorisation predicates and wire            *)
(* conversion, the structural recogniser isShipError, and the format       *)
(* validators validateApiKey / validateDeployToken / validateApiUrl.       *)
(*                                                                         *)
(* The only state of the package is the table of category sets it builds   *)
(* when it loads.  The other variables are the frame of a caller: the      *)
(* operation it called last, the arguments it passed, the outcome (a       *)
(* returned value or a thrown one), the error value and the wire payload   *)
(* it currently holds.                                                     *)
(***************************************************************************)
EXTENDS Integers, Sequences, FiniteSets, TLC

VARIABLES
    op,       \* name of the operation called last ("init" before any call)
    arg,      \* tuple of the arguments of that call
    ret,      \* its outcome: [k |-> "return" | "throw", v |-> a JS value]
    err,      \* the error value the caller holds (NoValue when none)
    payload,  \* the ErrorResponse the caller holds (NoValue when none)
    origin,   \* the error value `payload` was produced from by toResponse
    categories  \* the module's ERROR_CATEGORIES table, built when it loads

vars == <<op, arg, ret, err, payload, origin, categories>>

(* JavaScript values.  Every value is a record tagged by its typeof class; *)
(* objects carry the class that constructed them and their own properties. *)

Undefined == [t |-> "undefined"]
Null == [t |-> "null"]
Str(s) == [t |-> "string", s |-> s]
Num(n) == [t |-> "number", n |-> n]
Bool(b) == [t |-> "boolean", b |-> b]
Obj(cls, props) == [t |-> "object", cls |-> cls, props |-> props]
Fn(props) == [t |-> "function", cls |-> "Function", props |-> props]
NoValue == [t |-> "none"]
NoProps == [k \in {} |-> Undefined]

\* typeof v
TypeOf(v) ==
    CASE v.t = "null" -> "object"
      [] OTHER -> v.t

\* ToBoolean(v)
Truthy(v) ==
    CASE v.t = "undefined" -> FALSE
      [] v.t = "null" -> FALSE
      [] v.t = "boolean" -> v.b
      [] v.t = "number" -> v.n # 0
      [] v.t = "string" -> v.s # ""
      [] OTHER -> TRUE

\* Properties an instance inherits from its prototype chain (Error.prototype
\* supplies name and message; ShipError.prototype adds no data property).
Proto(cls) ==
    CASE cls = "Error" -> ("name" :> Str("Error")) @@ ("message" :> Str(""))
      [] cls = "TypeError" -> ("name" :> Str("TypeError")) @@ ("message" :> Str(""))
      [] cls = "ShipError" -> ("name" :> Str("Error")) @@ ("message" :> Str(""))
      [] cls = "ShipError@bundle2" -> ("name" :> Str("Error")) @@ ("message" :> Str(""))
      [] cls = "Function" -> ("name" :> Str(""))
      [] OTHER -> NoProps

IsObjectLike(v) == v.t \in {"object", "function"}

\* k in v
Has(v, k) == k \in DOMAIN v.props \/ k \in DOMAIN Proto(v.cls)

\* v.k (own property first, then the prototype chain; undefined on primitives)
Get(v, k) ==
    IF ~IsObjectLike(v) THEN Undefined
    ELSE IF k \in DOMAIN v.props THEN v.props[k]
    ELSE IF k \in DOMAIN Proto(v.cls) THEN Proto(v.cls)[k]
    ELSE Undefined

\* v?.k
OptGet(v, k) == IF v.t \in {"undefined", "null"} THEN Undefined ELSE Get(v, k)

\* outcome of a call: a returned value or a thrown one
Return(v) == [k |-> "return", v |-> v]
Throw(v) == [k |-> "throw", v |-> v]

(* ERROR SYSTEM                                                            *)

Validation == "validation_failed"
NotFound == "not_found"
RateLimit == "rate_limit_exceeded"
Authentication == "authentication_failed"
Business == "business_logic_error"
Api == "internal_server_error"
Network == "network_error"
Cancelled == "operation_cancelled"
File == "file_error"
Config == "config_error"

ErrorType ==
    {Validation, NotFound, RateLimit, Authentication, Business, Api, Network,
     Cancelled, File, Config}

\* category table whose client set misses File
ERROR_CATEGORIES_noFile ==
    [client |-> {Str(Business), Str(Config), Str(Validation)},
     network |-> {Str(Network)},
     auth |-> {Str(Authentication)}]

ERROR_CATEGORIES ==
    [client |-> {Str(Business), Str(Config), Str(File), Str(Validation)},
     network |-> {Str(Network)},
     auth |-> {Str(Authentication)}]

\* a constructor that assigns the status property only when a status is given
ShipError_optionalStatus(type, message, status, details) ==
    Obj("ShipError",
        (IF message = Undefined THEN NoProps ELSE ("message" :> message))
        @@ ("type" :> type)
        @@ (IF status = Undefined THEN NoProps ELSE ("status" :> status))
        @@ ("details" :> details) @@ ("name" :> Str("ShipError")))

\* new ShipError(type, message, status, details): super(message) creates the
\* own message property only for a message that is not undefined; the
\* parameter properties type, status and details are always assigned.
ShipError(type, message, status, details) ==
    Obj("ShipError",
        (IF message = Undefined THEN NoProps ELSE ("message" :> message))
        @@ ("type" :> type) @@ ("status" :> status) @@ ("details" :> details)
        @@ ("name" :> Str("ShipError")))

\* a parameter with a default value takes it when the argument is undefined
Default(a, d) == IF a = Undefined THEN d ELSE a

\* toResponse that forwards the details of every kind untouched
toResponse_keepInternal(this) ==
    [error |-> Get(this, "type"),
     message |-> Get(this, "message"),
     status |-> Get(this, "status"),
     details |-> Get(this, "details")]

toResponse(this) ==
    LET details ==
            IF Get(this, "type") = Str(Authentication)
               /\ Truthy(OptGet(Get(this, "details"), "internal"))
            THEN Undefined
            ELSE Get(this, "details")
    IN  [error |-> Get(this, "type"),
         message |-> Get(this, "message"),
         status |-> Get(this, "status"),
         details |-> details]

\* fromResponse that rebuilds the error without the details field
fromResponse_noDetails(response) ==
    ShipError(response.error, response.message, response.status, Undefined)

\* fromResponse that fills in 500 for a payload without a status
fromResponse_defaultStatus(response) ==
    ShipError(response.error, response.message, Default(response.status, Num(500)),
              response.details)

fromResponse(response) ==
    ShipError(response.error, response.message, response.status, response.details)

validation(message, details) == ShipError(Str(Validation), message, Num(400), details)

\* notFound that tests the id against undefined instead of its truthiness
notFound_definedId(resource, id) ==
    LET message ==
            IF id # Undefined THEN Str(resource.s \o " " \o id.s \o " not found")
            ELSE Str(resource.s \o " not found")
    IN  ShipError(Str(NotFound), message, Num(404), Undefined)

notFound(resource, id) ==
    LET message ==
            IF Truthy(id) THEN Str(resource.s \o " " \o id.s \o " not found")
            ELSE Str(resource.s \o " not found")
    IN  ShipError(Str(NotFound), message, Num(404), Undefined)

rateLimit(message) ==
    ShipError(Str(RateLimit), Default(message, Str("Too many requests")), Num(429), Undefined)

authentication(message, details) ==
    ShipError(Str(Authentication), Default(message, Str("Authentication required")),
              Num(401), details)

business(message, status) ==
    ShipError(Str(Business), message, Default(status, Num(400)), Undefined)

network(message, cause) ==
    ShipError(Str(Network), message, Undefined, Obj("Object", "cause" :> cause))

cancelled(message) == ShipError(Str(Cancelled), message, Undefined, Undefined)

file(message, filePath) ==
    ShipError(Str(File), message, Undefined, Obj("Object", "filePath" :> filePath))

config(message, details) == ShipError(Str(Config), message, Undefined, details)

api(message, status) == ShipError(Str(Api), message, Default(status, Num(500)), Undefined)

database(message, status) == ShipError(Str(Api), message, Default(status, Num(500)), Undefined)

storage(message, status) == ShipError(Str(Api), message, Default(status, Num(500)), Undefined)

isClientError(this) == Get(this, "type") \in categories.client
isNetworkError(this) == Get(this, "type") \in categories.network
isAuthError(this) == Get(this, "type") \in categories.auth
isValidationError(this) == Get(this, "type") = Str(Validation)
isFileError(this) == Get(this, "type") = Str(File)
isConfigError(this) == Get(this, "type") = Str(Config)
isType(this, errorType) == Get(this, "type") = errorType

\* recogniser by class identity of this copy of the package
isShipError_instanceof(error) ==
    /\ TypeOf(error) = "object"
    /\ error # Null
    /\ error.cls = "ShipError"

isShipError(error) ==
    /\ error # Null
    /\ TypeOf(error) = "object"
    /\ Has(error, "name")
    /\ Get(error, "name") = Str("ShipError")
    /\ Has(error, "status")

(* VALIDATION UTILITIES                                                    *)
(* A credential string is the sequence of its characters.                  *)

API_KEY_PREFIX == <<"s", "h", "i", "p", "-">>
API_KEY_HEX_LENGTH == 64
API_KEY_TOTAL_LENGTH == Len(API_KEY_PREFIX) + API_KEY_HEX_LENGTH

\* a deploy token prefix that is the API key prefix
DEPLOY_TOKEN_PREFIX_ship == <<"s", "h", "i", "p", "-">>
DEPLOY_TOKEN_PREFIX == <<"t", "o", "k", "e", "n", "-">>
DEPLOY_TOKEN_HEX_LENGTH == 64
DEPLOY_TOKEN_TOTAL_LENGTH == Len(DEPLOY_TOKEN_PREFIX) + DEPLOY_TOKEN_HEX_LENGTH

\* the text of a character sequence
RECURSIVE Text(_)
Text(s) == IF s = <<>> THEN "" ELSE Head(s) \o Text(Tail(s))

\* s.startsWith(p)
startsWith(s, p) == Len(s) >= Len(p) /\ SubSeq(s, 1, Len(p)) = p

\* s.slice(n)
slice(s, n) == SubSeq(s, n + 1, Len(s))

\* Canonicalize of a pattern character under the i flag (no u flag): the
\* upper-case form of the character
LowerCase ==
    <<"a", "b", "c", "d", "e", "f", "g", "h", "i", "j", "k", "l", "m",
      "n", "o", "p", "q", "r", "s", "t", "u", "v", "w", "x", "y", "z">>
UpperCase ==
    <<"A", "B", "C", "D", "E", "F", "G", "H", "I", "J", "K", "L", "M",
      "N", "O", "P", "Q", "R", "S", "T", "U", "V", "W", "X", "Y", "Z">>
Canonicalize(ch) ==
    IF \E i \in 1..26 : LowerCase[i] = ch
    THEN UpperCase[CHOOSE i \in 1..26 : LowerCase[i] = ch]
    ELSE ch

\* the character class [a-f0-9]
HexClass ==
    {"a", "b", "c", "d", "e", "f", "0", "1", "2", "3", "4", "5", "6", "7", "8", "9"}

\* /^[a-f0-9]{64}$/ without the i flag
HexRegexTest_caseSensitive(hexPart) ==
    /\ Len(hexPart) = 64
    /\ \A i \in 1..Len(hexPart) : hexPart[i] \in HexClass

\* /^[a-f0-9]{64}$/i.test(hexPart)
HexRegexTest(hexPart) ==
    /\ Len(hexPart) = 64
    /\ \A i \in 1..Len(hexPart) :
           \E c \in HexClass : Canonicalize(c) = Canonicalize(hexPart[i])

\* validateApiKey that checks the total length before the prefix
validateApiKey_lengthFirst(apiKey) ==
    IF Len(apiKey) # API_KEY_TOTAL_LENGTH
    THEN Throw(validation(Str("API key must be " \o ToString(API_KEY_TOTAL_LENGTH)
                              \o " characters total (" \o Text(API_KEY_PREFIX) \o " + "
                              \o ToString(API_KEY_HEX_LENGTH) \o " hex chars)"),
                          Undefined))
    ELSE IF ~startsWith(apiKey, API_KEY_PREFIX)
    THEN Throw(validation(Str("API key must start with \"" \o Text(API_KEY_PREFIX) \o "\""),
                          Undefined))
    ELSE IF ~HexRegexTest(slice(apiKey, Len(API_KEY_PREFIX)))
    THEN Throw(validation(Str("API key must contain " \o ToString(API_KEY_HEX_LENGTH)
                              \o " hexadecimal characters after \""
                              \o Text(API_KEY_PREFIX) \o "\" prefix"),
                          Undefined))
    ELSE Return(Undefined)

validateApiKey(apiKey) ==
    IF ~startsWith(apiKey, API_KEY_PREFIX)
    THEN Throw(validation(Str("API key must start with \"" \o Text(API_KEY_PREFIX) \o "\""),
                          Undefined))
    ELSE IF Len(apiKey) # API_KEY_TOTAL_LENGTH
    THEN Throw(validation(Str("API key must be " \o ToString(API_KEY_TOTAL_LENGTH)
                              \o " characters total (" \o Text(API_KEY_PREFIX) \o " + "
                              \o ToString(API_KEY_HEX_LENGTH) \o " hex chars)"),
                          Undefined))
    ELSE IF ~HexRegexTest(slice(apiKey, Len(API_KEY_PREFIX)))
    THEN Throw(validation(Str("API key must contain " \o ToString(API_KEY_HEX_LENGTH)
                              \o " hexadecimal characters after \""
                              \o Text(API_KEY_PREFIX) \o "\" prefix"),
                          Undefined))
    ELSE Return(Undefined)

\* validateDeployToken that slices the hexadecimal part at the API key prefix
validateDeployToken_keySlice(deployToken) ==
    IF ~startsWith(deployToken, DEPLOY_TOKEN_PREFIX)
    THEN Throw(validation(Str("Deploy token must start with \""
                              \o Text(DEPLOY_TOKEN_PREFIX) \o "\""),
                          Undefined))
    ELSE IF Len(deployToken) # DEPLOY_TOKEN_TOTAL_LENGTH
    THEN Throw(validation(Str("Deploy token must be " \o ToString(DEPLOY_TOKEN_TOTAL_LENGTH)
                              \o " characters total (" \o Text(DEPLOY_TOKEN_PREFIX) \o " + "
                              \o ToString(DEPLOY_TOKEN_HEX_LENGTH) \o " hex chars)"),
                          Undefined))
    ELSE IF ~HexRegexTest(slice(deployToken, Len(API_KEY_PREFIX)))
    THEN Throw(validation(Str("Deploy token must contain " \o ToString(DEPLOY_TOKEN_HEX_LENGTH)
                              \o " hexadecimal characters after \""
                              \o Text(DEPLOY_TOKEN_PREFIX) \o "\" prefix"),
                          Undefined))
    ELSE Return(Undefined)

validateDeployToken(deployToken) ==
    IF ~startsWith(deployToken, DEPLOY_TOKEN_PREFIX)
    THEN Throw(validation(Str("Deploy token must start with \""
                              \o Text(DEPLOY_TOKEN_PREFIX) \o "\""),
                          Undefined))
    ELSE IF Len(deployToken) # DEPLOY_TOKEN_TOTAL_LENGTH
    THEN Throw(validation(Str("Deploy token must be " \o ToString(DEPLOY_TOKEN_TOTAL_LENGTH)
                              \o " characters total (" \o Text(DEPLOY_TOKEN_PREFIX) \o " + "
                              \o ToString(DEPLOY_TOKEN_HEX_LENGTH) \o " hex chars)"),
                          Undefined))
    ELSE IF ~HexRegexTest(slice(deployToken, Len(DEPLOY_TOKEN_PREFIX)))
    THEN Throw(validation(Str("Deploy token must contain " \o ToString(DEPLOY_TOKEN_HEX_LENGTH)
                              \o " hexadecimal characters after \""
                              \o Text(DEPLOY_TOKEN_PREFIX) \o "\" prefix"),
                          Undefined))
    ELSE Return(Undefined)

(* new URL(input) without a base, for inputs written over the letter runs  *)
(* "http", "https", "ftp" and the delimiters ":", "/", "?", "#".  The      *)
(* input is the sequence of these pieces; the parser is the URL Standard's *)
(* basic URL parser run over them, a letter run being consumed whole by    *)
(* every state that consumes letters.                                      *)

UrlWords == {"http", "https", "ftp"}
SpecialSchemes == {"ftp", "file", "http", "https", "ws", "wss"}

\* the longest prefix of r that holds none of the pieces in stops
RECURSIVE TakeUntil(_, _)
TakeUntil(r, stops) ==
    IF r = <<>> \/ Head(r) \in stops THEN <<>>
    ELSE <<Head(r)>> \o TakeUntil(Tail(r), stops)

DropUntil(r, stops) == SubSeq(r, Len(TakeUntil(r, stops)) + 1, Len(r))

\* path state: the buffer is pushed as a segment at every "/" and at the end
RECURSIVE PathSegments(_, _)
PathSegments(r, buffer) ==
    IF r = <<>> THEN <<buffer>>
    ELSE IF Head(r) = "/" THEN <<buffer>> \o PathSegments(Tail(r), "")
    ELSE PathSegments(Tail(r), buffer \o Head(r))

\* URL path serializer: "/" before every segment of a list path
RECURSIVE SerializePath(_)
SerializePath(path) ==
    IF path = <<>> THEN "" ELSE "/" \o Head(path) \o SerializePath(Tail(path))

ParseFailure == [ok |-> FALSE]

\* query state and fragment state; r starts at "?", at "#" or is empty.
\* A component that is absent is Null, one that is present is a string.
QueryOf(r) ==
    IF r # <<>> /\ Head(r) = "?" THEN Str(Text(TakeUntil(Tail(r), {"#"}))) ELSE Null
FragmentOf(r) ==
    LET f == DropUntil(r, {"#"})
    IN  IF f # <<>> THEN Str(Text(Tail(f))) ELSE Null

\* authority state, host state and port state over the pieces up to the first
\* "/", "?" or "#": a ":" with no host before it, a missing host of a special
\* scheme, and a port that is not made of digits are failures
AuthorityOk(authority, special) ==
    LET host == TakeUntil(authority, {":"})
        after == DropUntil(authority, {":"})
    IN  IF after # <<>>
        THEN host # <<>> /\ Tail(after) = <<>>
        ELSE ~(special /\ host = <<>>)

RECURSIVE SkipSlashes(_)
SkipSlashes(r) == IF r # <<>> /\ Head(r) = "/" THEN SkipSlashes(Tail(r)) ELSE r

\* the URL record after the scheme and the ":" have been read
AfterScheme(scheme, r) ==
    IF scheme \in SpecialSchemes
    THEN \* special authority (ignore) slashes, authority, path start, path
        LET a == SkipSlashes(r)
            authority == TakeUntil(a, {"/", "?", "#"})
            rest == DropUntil(a, {"/", "?", "#"})
            p == IF rest # <<>> /\ Head(rest) = "/" THEN Tail(rest) ELSE rest
        IN  IF ~AuthorityOk(authority, TRUE) THEN ParseFailure
            ELSE [ok |-> TRUE, scheme |-> scheme,
                  pathname |-> SerializePath(PathSegments(TakeUntil(p, {"?", "#"}), "")),
                  query |-> QueryOf(DropUntil(p, {"?", "#"})),
                  fragment |-> FragmentOf(DropUntil(p, {"?", "#"}))]
    ELSE IF r # <<>> /\ Head(r) = "/"
    THEN IF Tail(r) # <<>> /\ Head(Tail(r)) = "/"
         THEN \* path or authority state saw "//": authority, then path start
            LET a == Tail(Tail(r))
                authority == TakeUntil(a, {"/", "?", "#"})
                rest == DropUntil(a, {"/", "?", "#"})
            IN  IF ~AuthorityOk(authority, FALSE) THEN ParseFailure
                ELSE [ok |-> TRUE, scheme |-> scheme,
                      pathname |->
                          IF rest # <<>> /\ Head(rest) = "/"
                          THEN SerializePath(
                                   PathSegments(TakeUntil(Tail(rest), {"?", "#"}), ""))
                          ELSE "",
                      query |-> QueryOf(DropUntil(rest, {"?", "#"})),
                      fragment |-> FragmentOf(DropUntil(rest, {"?", "#"}))]
         ELSE \* a path with no authority
            [ok |-> TRUE, scheme |-> scheme,
             pathname |-> SerializePath(PathSegments(TakeUntil(Tail(r), {"?", "#"}), "")),
             query |-> QueryOf(DropUntil(r, {"?", "#"})),
             fragment |-> FragmentOf(DropUntil(r, {"?", "#"}))]
    ELSE \* opaque path state
        [ok |-> TRUE, scheme |-> scheme,
         pathname |-> Text(TakeUntil(r, {"?", "#"})),
         query |-> QueryOf(DropUntil(r, {"?", "#"})),
         fragment |-> FragmentOf(DropUntil(r, {"?", "#"}))]

\* scheme start state and scheme state: the input must open with letters that
\* a ":" follows; without a base anything else is a failure
URL(input) ==
    LET buffer == TakeUntil(input, {":", "/", "?", "#"})
        rest == DropUntil(input, {":", "/", "?", "#"})
    IN  IF buffer = <<>> \/ rest = <<>> \/ Head(rest) # ":" THEN ParseFailure
        ELSE AfterScheme(Text(buffer), Tail(rest))

\* the getters of a parsed URL
protocol(url) == url.scheme \o ":"
pathname(url) == url.pathname
search(url) == IF url.query = Null \/ url.query = Str("") THEN "" ELSE "?" \o url.query.s
hash(url) == IF url.fragment = Null \/ url.fragment = Str("") THEN "" ELSE "#" \o url.fragment.s

\* what new URL throws on a failure
UrlTypeError == Obj("TypeError", "message" :> Str("Invalid URL"))

\* the try block with the query and fragment test joined by && instead of ||
ApiUrlRules_and(apiUrl) ==
    LET url == URL(apiUrl)
    IN  IF ~url.ok THEN Throw(UrlTypeError)
        ELSE IF protocol(url) \notin {"http:", "https:"}
        THEN Throw(validation(Str("API URL must use http:// or https:// protocol"), Undefined))
        ELSE IF pathname(url) # "/" /\ pathname(url) # ""
        THEN Throw(validation(Str("API URL must not contain a path"), Undefined))
        ELSE IF search(url) # "" /\ hash(url) # ""
        THEN Throw(validation(Str("API URL must not contain query parameters or fragments"),
                              Undefined))
        ELSE Return(Undefined)

\* the body of the try block: the value it completes with
ApiUrlRules(apiUrl) ==
    LET url == URL(apiUrl)
    IN  IF ~url.ok THEN Throw(UrlTypeError)
        ELSE IF protocol(url) \notin {"http:", "https:"}
        THEN Throw(validation(Str("API URL must use http:// or https:// protocol"), Undefined))
        ELSE IF pathname(url) # "/" /\ pathname(url) # ""
        THEN Throw(validation(Str("API URL must not contain a path"), Undefined))
        ELSE IF search(url) # "" \/ hash(url) # ""
        THEN Throw(validation(Str("API URL must not contain query parameters or fragments"),
                              Undefined))
        ELSE Return(Undefined)

\* validateApiUrl whose catch block rethrows whatever it caught
validateApiUrl_rethrowAll(apiUrl) == ApiUrlRules(apiUrl)

validateApiUrl(apiUrl) ==
    LET completion == ApiUrlRules(apiUrl)
    IN  IF completion.k = "throw"
        THEN IF isShipError(completion.v)
             THEN Throw(completion.v)
             ELSE Throw(validation(Str("API URL must be a valid URL"), Undefined))
        ELSE completion

(* THE CALLER: inputs and one action per operation                          *)

Messages == {Str("File too large"), Str("")}
Statuses == {Undefined, Num(400), Num(503)}
Details ==
    {Undefined, Null, Str("x"),
     Obj("Object", "internal" :> Bool(TRUE)),
     Obj("Object", "internal" :> Bool(FALSE)),
     Obj("Object", "reason" :> Str("expired")),
     Obj("Object", ("internal" :> Str("trace")) @@ ("reason" :> Str("expired")))}
Resources == {Str("Deployment"), Str("Domain")}
Ids == {Undefined, Str(""), Str("happy-cat-abc1234")}
Causes == {Undefined, Obj("TypeError", "message" :> Str("fetch failed"))}
FilePaths == {Undefined, Str("index.html")}

\* kinds a payload read off the wire can carry: the JSON text is not checked
\* against the ErrorType enumeration before fromResponse reads it
WireKinds == ErrorType \cup {"teapot"}
WirePayloads ==
    [error : {Str(k) : k \in WireKinds}, message : Messages \cup {Undefined},
     status : Statuses, details : Details]

\* values handed to the recogniser: primitives, functions, and objects of
\* several classes (two bundled copies of ShipError among them) with and
\* without own name and status properties
ProbeClasses == {"Object", "Error", "TypeError", "ShipError", "ShipError@bundle2"}
ProbeNames ==
    {NoProps} \cup {"name" :> n : n \in {Str("ShipError"), Str("Error"), Str("shiperror")}}
ProbeStatuses ==
    {NoProps} \cup {"status" :> v : v \in {Undefined, Null, Num(400), Num(0)}}
Probes ==
    {Undefined, Null, Str("ShipError"), Num(400), Bool(TRUE)}
    \cup {Fn(n @@ st) : n \in ProbeNames, st \in ProbeStatuses}
    \cup {Obj(c, n @@ st) : c \in ProbeClasses, n \in ProbeNames, st \in ProbeStatuses}

\* argument tuples a caller prepares for its first call
ErrorArgs ==
    ({Str(k) : k \in ErrorType} \X Messages \X Statuses \X Details)
    \cup (Messages \X Details)
    \cup (Resources \X Ids)
    \cup {<<m>> : m \in Messages \cup {Undefined}}
    \cup ((Messages \cup {Undefined}) \X Details)
    \cup (Messages \X Statuses)
    \cup (Messages \X Causes)
    \cup (Messages \X FilePaths)
    \cup {<<r>> : r \in WirePayloads}
    \cup {<<v>> : v \in Probes}

Init ==
    /\ op = "init"
    /\ arg \in ErrorArgs
    /\ ret = Return(Undefined)
    /\ err = NoValue
    /\ payload = NoValue
    /\ origin = NoValue
    /\ categories = ERROR_CATEGORIES

New ==
    /\ op = "init"
    /\ arg \in {Str(k) : k \in ErrorType} \X Messages \X Statuses \X Details
    /\ op' = "new ShipError"
    /\ ret' = Return(ShipError(arg[1], arg[2], arg[3], arg[4]))
    /\ err' = ShipError(arg[1], arg[2], arg[3], arg[4])
    /\ UNCHANGED <<arg, payload, origin>>
    /\ UNCHANGED categories

CallValidation ==
    /\ op = "init"
    /\ arg \in Messages \X Details
    /\ op' = "validation"
    /\ ret' = Return(validation(arg[1], arg[2]))
    /\ err' = validation(arg[1], arg[2])
    /\ UNCHANGED <<arg, payload, origin>>
    /\ UNCHANGED categories

CallNotFound ==
    /\ op = "init"
    /\ arg \in Resources \X Ids
    /\ op' = "notFound"
    /\ ret' = Return(notFound(arg[1], arg[2]))
    /\ err' = notFound(arg[1], arg[2])
    /\ UNCHANGED <<arg, payload, origin>>
    /\ UNCHANGED categories

CallRateLimit ==
    /\ op = "init"
    /\ arg \in {<<m>> : m \in Messages \cup {Undefined}}
    /\ op' = "rateLimit"
    /\ ret' = Return(rateLimit(arg[1]))
    /\ err' = rateLimit(arg[1])
    /\ UNCHANGED <<arg, payload, origin>>
    /\ UNCHANGED categories

CallAuthentication ==
    /\ op = "init"
    /\ arg \in (Messages \cup {Undefined}) \X Details
    /\ op' = "authentication"
    /\ ret' = Return(authentication(arg[1], arg[2]))
    /\ err' = authentication(arg[1], arg[2])
    /\ UNCHANGED <<arg, payload, origin>>
    /\ UNCHANGED categories

CallBusiness ==
    /\ op = "init"
    /\ arg \in Messages \X Statuses
    /\ op' = "business"
    /\ ret' = Return(business(arg[1], arg[2]))
    /\ err' = business(arg[1], arg[2])
    /\ UNCHANGED <<arg, payload, origin>>
    /\ UNCHANGED categories

CallNetwork ==
    /\ op = "init"
    /\ arg \in Messages \X Causes
    /\ op' = "network"
    /\ ret' = Return(network(arg[1], arg[2]))
    /\ err' = network(arg[1], arg[2])
    /\ UNCHANGED <<arg, payload, origin>>
    /\ UNCHANGED categories

CallCancelled ==
    /\ op = "init"
    /\ arg \in {<<m>> : m \in Messages}
    /\ op' = "cancelled"
    /\ ret' = Return(cancelled(arg[1]))
    /\ err' = cancelled(arg[1])
    /\ UNCHANGED <<arg, payload, origin>>
    /\ UNCHANGED categories

CallFile ==
    /\ op = "init"
    /\ arg \in Messages \X FilePaths
    /\ op' = "file"
    /\ ret' = Return(file(arg[1], arg[2]))
    /\ err' = file(arg[1], arg[2])
    /\ UNCHANGED <<arg, payload, origin>>
    /\ UNCHANGED categories

CallConfig ==
    /\ op = "init"
    /\ arg \in Messages \X Details
    /\ op' = "config"
    /\ ret' = Return(config(arg[1], arg[2]))
    /\ err' = config(arg[1], arg[2])
    /\ UNCHANGED <<arg, payload, origin>>
    /\ UNCHANGED categories

CallApi ==
    /\ op = "init"
    /\ arg \in Messages \X Statuses
    /\ op' = "api"
    /\ ret' = Return(api(arg[1], arg[2]))
    /\ err' = api(arg[1], arg[2])
    /\ UNCHANGED <<arg, payload, origin>>
    /\ UNCHANGED categories

CallDatabase ==
    /\ op = "init"
    /\ arg \in Messages \X Statuses
    /\ op' = "database"
    /\ ret' = Return(database(arg[1], arg[2]))
    /\ err' = database(arg[1], arg[2])
    /\ UNCHANGED <<arg, payload, origin>>
    /\ UNCHANGED categories

CallStorage ==
    /\ op = "init"
    /\ arg \in Messages \X Statuses
    /\ op' = "storage"
    /\ ret' = Return(storage(arg[1], arg[2]))
    /\ err' = storage(arg[1], arg[2])
    /\ UNCHANGED <<arg, payload, origin>>
    /\ UNCHANGED categories

\* a payload arrives from the wire
Receive ==
    /\ op = "init"
    /\ arg \in {<<r>> : r \in WirePayloads}
    /\ op' = "receive"
    /\ ret' = Return(Undefined)
    /\ payload' = arg[1]
    /\ UNCHANGED <<arg, err, origin>>
    /\ UNCHANGED categories

\* err.toResponse(): the payload goes in flight, the error value stays
CallToResponse ==
    /\ err # NoValue
    /\ op' = "toResponse"
    /\ arg' = <<>>
    /\ ret' = Return(toResponse(err))
    /\ payload' = toResponse(err)
    /\ origin' = err
    /\ UNCHANGED err
    /\ UNCHANGED categories

\* ShipError.fromResponse(payload)
CallFromResponse ==
    /\ payload # NoValue
    /\ op' = "fromResponse"
    /\ arg' = <<payload>>
    /\ ret' = Return(fromResponse(payload))
    /\ err' = fromResponse(payload)
    /\ UNCHANGED <<payload, origin>>
    /\ UNCHANGED categories

\* ShipError.fromResponse(payload).toResponse(): the rebuilt error is put in
\* flight again
CallToResponseAgain ==
    /\ op = "fromResponse"
    /\ op' = "fromResponse.toResponse"
    /\ ret' = Return(toResponse(err))
    /\ UNCHANGED <<arg, err, payload, origin>>
    /\ UNCHANGED categories

\* isShipError(value) on a value of any provenance, or on the held error value
CallIsShipError ==
    /\ \/ op = "init" /\ arg \in {<<v>> : v \in Probes} /\ UNCHANGED arg
       \/ err # NoValue /\ arg' = <<err>>
    /\ op' = "isShipError"
    /\ ret' = Return(Bool(isShipError(arg'[1])))
    /\ UNCHANGED <<err, payload, origin>>
    /\ UNCHANGED categories

\* the categorisation predicates of the held error value
CallIsClientError ==
    /\ err # NoValue
    /\ op' = "isClientError"
    /\ arg' = <<>>
    /\ ret' = Return(Bool(isClientError(err)))
    /\ UNCHANGED <<err, payload, origin>>
    /\ UNCHANGED categories

CallIsNetworkError ==
    /\ err # NoValue
    /\ op' = "isNetworkError"
    /\ arg' = <<>>
    /\ ret' = Return(Bool(isNetworkError(err)))
    /\ UNCHANGED <<err, payload, origin>>
    /\ UNCHANGED categories

CallIsAuthError ==
    /\ err # NoValue
    /\ op' = "isAuthError"
    /\ arg' = <<>>
    /\ ret' = Return(Bool(isAuthError(err)))
    /\ UNCHANGED <<err, payload, origin>>
    /\ UNCHANGED categories

CallIsValidationError ==
    /\ err # NoValue
    /\ op' = "isValidationError"
    /\ arg' = <<>>
    /\ ret' = Return(Bool(isValidationError(err)))
    /\ UNCHANGED <<err, payload, origin>>
    /\ UNCHANGED categories

CallIsFileError ==
    /\ err # NoValue
    /\ op' = "isFileError"
    /\ arg' = <<>>
    /\ ret' = Return(Bool(isFileError(err)))
    /\ UNCHANGED <<err, payload, origin>>
    /\ UNCHANGED categories

CallIsConfigError ==
    /\ err # NoValue
    /\ op' = "isConfigError"
    /\ arg' = <<>>
    /\ ret' = Return(Bool(isConfigError(err)))
    /\ UNCHANGED <<err, payload, origin>>
    /\ UNCHANGED categories

CallIsType ==
    \E errorType \in ErrorType :
        /\ err # NoValue
        /\ op' = "isType"
        /\ arg' = <<Str(errorType)>>
        /\ ret' = Return(Bool(isType(err, Str(errorType))))
        /\ UNCHANGED <<err, payload, origin>>
    /\ UNCHANGED categories

Next ==
    \/ New
    \/ CallValidation
    \/ CallNotFound
    \/ CallRateLimit
    \/ CallAuthentication
    \/ CallBusiness
    \/ CallNetwork
    \/ CallCancelled
    \/ CallFile
    \/ CallConfig
    \/ CallApi
    \/ CallDatabase
    \/ CallStorage
    \/ Receive
    \/ CallIsShipError
    \/ CallToResponse
    \/ CallFromResponse
    \/ CallToResponseAgain
    \/ CallIsClientError
    \/ CallIsNetworkError
    \/ CallIsAuthError
    \/ CallIsValidationError
    \/ CallIsFileError
    \/ CallIsConfigError
    \/ CallIsType

Spec == Init /\ [][Next]_vars

(* PROPERTIES OF THE ERROR SYSTEM                                          *)

Kind(e) == Get(e, "type").s

\* an Authentication error whose details carry a truthy `internal` marker
HasInternalMarker(e) ==
    /\ Kind(e) = Authentication
    /\ Get(e, "details").t = "object"
    /\ "internal" \in DOMAIN Get(e, "details").props
    /\ Truthy(Get(e, "details").props["internal"])

SameFields(e1, e2) ==
    /\ Get(e1, "type") = Get(e2, "type")
    /\ Get(e1, "message") = Get(e2, "message")
    /\ Get(e1, "status") = Get(e2, "status")
    /\ Get(e1, "details") = Get(e2, "details")

\* C5: for every error value e other than an Authentication error whose
\* details carry the internal marker, fromResponse(e.toResponse()) has the
\* kind, message, status and details of e.
C5_RoundTrip ==
    (op = "fromResponse" /\ origin # NoValue /\ ~HasInternalMarker(origin))
        => SameFields(err, origin)

C5_Witness ==
    /\ op = "fromResponse"
    /\ origin # NoValue
    /\ Kind(origin) = Authentication
    /\ Get(origin, "details") = Obj("Object", "internal" :> Bool(FALSE))
    /\ Get(err, "details") = Obj("Object", "internal" :> Bool(FALSE))
    /\ Get(err, "status") = Num(503)

\* C6: toResponse() yields {error: kind, message, status, details} of the
\* error, except that the details of an Authentication error with the internal
\* marker are left out (undefined); no payload it yields for an Authentication
\* error carries details with a truthy internal marker.
C6_ToResponseSanitises ==
    op = "toResponse" =>
        /\ ret.v.error = Str(Kind(err))
        /\ ret.v.message = Get(err, "message")
        /\ ret.v.status = Get(err, "status")
        /\ HasInternalMarker(err) => ret.v.details = Undefined
        /\ ~HasInternalMarker(err) => ret.v.details = Get(err, "details")
        /\ ret.v.error = Str(Authentication)
             => ~(/\ ret.v.details.t = "object"
                  /\ "internal" \in DOMAIN ret.v.details.props
                  /\ Truthy(ret.v.details.props["internal"]))

C6_Witness ==
    /\ op = "toResponse"
    /\ Kind(err) = Authentication
    /\ Get(err, "details") =
           Obj("Object", ("internal" :> Str("trace")) @@ ("reason" :> Str("expired")))
    /\ payload.details = Undefined
    /\ payload.status = Num(401)

\* C8: the categorisation predicates are functions of the kind alone:
\* isClientError exactly for Business, Config, File, Validation; isNetworkError
\* for Network; isAuthError for Authentication; isValidationError, isFileError,
\* isConfigError for Validation, File, Config; isType(k) exactly when k is the
\* kind of the error.
C8_Categories ==
    /\ op = "isClientError" =>
           ret.v = Bool(Kind(err) \in {Business, Config, File, Validation})
    /\ op = "isNetworkError" => ret.v = Bool(Kind(err) = Network)
    /\ op = "isAuthError" => ret.v = Bool(Kind(err) = Authentication)
    /\ op = "isValidationError" => ret.v = Bool(Kind(err) = Validation)
    /\ op = "isFileError" => ret.v = Bool(Kind(err) = File)
    /\ op = "isConfigError" => ret.v = Bool(Kind(err) = Config)
    /\ op = "isType" => ret.v = Bool(arg[1].s = Kind(err))

C8_Witness ==
    /\ op = "isClientError"
    /\ Kind(err) = File
    /\ ret.v = Bool(TRUE)
    /\ Get(err, "status") = Undefined

FactoryKinds ==
    /\ op = "validation" => Kind(err) = Validation
    /\ op = "notFound" => Kind(err) = NotFound
    /\ op = "rateLimit" => Kind(err) = RateLimit
    /\ op = "authentication" => Kind(err) = Authentication
    /\ op = "business" => Kind(err) = Business
    /\ op = "network" => Kind(err) = Network
    /\ op = "cancelled" => Kind(err) = Cancelled
    /\ op = "file" => Kind(err) = File
    /\ op = "config" => Kind(err) = Config
    /\ op = "api" => Kind(err) = Api

FactoryDefaults ==
    /\ (op = "rateLimit" /\ arg[1] = Undefined)
           => Get(err, "message") = Str("Too many requests")
    /\ (op = "authentication" /\ arg[1] = Undefined)
           => Get(err, "message") = Str("Authentication required")
    /\ op = "business"
           => Get(err, "status") = (IF arg[2] = Undefined THEN Num(400) ELSE arg[2])
    /\ op = "api"
           => Get(err, "status") = (IF arg[2] = Undefined THEN Num(500) ELSE arg[2])

\* C9 as stated: every factory builds an error of its own kind; notFound's
\* message is "{resource} {id} not found" when an id is given and
\* "{resource} not found" when it is omitted; rateLimit and authentication
\* default their messages; business defaults to status 400 and api to 500.
C9_Original ==
    /\ FactoryKinds
    /\ FactoryDefaults
    /\ (op = "notFound" /\ arg[2] # Undefined)
           => Get(err, "message") = Str(arg[1].s \o " " \o arg[2].s \o " not found")
    /\ (op = "notFound" /\ arg[2] = Undefined)
           => Get(err, "message") = Str(arg[1].s \o " not found")

\* C9 amended: as C9, with notFound's message being "{resource} {id} not found"
\* when the id is a non-empty string and "{resource} not found" when the id is
\* omitted or is the empty string.
C9_Factories ==
    /\ FactoryKinds
    /\ FactoryDefaults
    /\ (op = "notFound" /\ arg[2] # Undefined /\ arg[2] # Str(""))
           => Get(err, "message") = Str(arg[1].s \o " " \o arg[2].s \o " not found")
    /\ (op = "notFound" /\ (arg[2] = Undefined \/ arg[2] = Str("")))
           => Get(err, "message") = Str(arg[1].s \o " not found")

C9_Witness ==
    /\ op = "notFound"
    /\ arg = <<Str("Deployment"), Str("")>>
    /\ Get(err, "message") = Str("Deployment not found")
    /\ Get(err, "status") = Num(404)

\* C10: every error value obtained from the constructor, a factory or
\* fromResponse of any wire payload has a kind among the ten ErrorType values.
C10_KindIsErrorType == err # NoValue => Kind(err) \in ErrorType

(* Credential candidates: a prefix followed by a run of one character in   *)
(* which at most one position holds another character.                     *)

MaxSlack == 1

CredChars == {"a", "f", "A", "F", "0", "9", "g", "G", "-", " "}
CredPrefixes ==
    {API_KEY_PREFIX, DEPLOY_TOKEN_PREFIX, <<>>, <<"S", "H", "I", "P", "-">>,
     <<"s", "h", "i", "p">>, <<"t", "o", "k", "e", "n">>, <<"x">> \o API_KEY_PREFIX}
CredLengths ==
    (0..MaxSlack) \cup ((API_KEY_HEX_LENGTH - MaxSlack)..(API_KEY_HEX_LENGTH + MaxSlack))
CredBody(n, c, k, d) == [i \in 1..n |-> IF i = k THEN d ELSE c]
Credentials ==
    {pre \o CredBody(n, c, k, d) :
        pre \in CredPrefixes, n \in CredLengths, c \in CredChars,
        k \in {0, 1, API_KEY_HEX_LENGTH}, d \in CredChars}

InitCred ==
    /\ op = "init"
    /\ arg \in {<<s>> : s \in Credentials}
    /\ ret = Return(Undefined)
    /\ err = NoValue
    /\ payload = NoValue
    /\ origin = NoValue
    /\ categories = ERROR_CATEGORIES

\* the caller catches what the validator throws
CallValidateApiKey ==
    /\ op = "init"
    /\ op' = "validateApiKey"
    /\ ret' = validateApiKey(arg[1])
    /\ err' = IF validateApiKey(arg[1]).k = "throw" THEN validateApiKey(arg[1]).v ELSE NoValue
    /\ UNCHANGED <<arg, payload, origin>>
    /\ UNCHANGED categories

CallValidateDeployToken ==
    /\ op = "init"
    /\ op' = "validateDeployToken"
    /\ ret' = validateDeployToken(arg[1])
    /\ err' = IF validateDeployToken(arg[1]).k = "throw"
              THEN validateDeployToken(arg[1]).v ELSE NoValue
    /\ UNCHANGED <<arg, payload, origin>>
    /\ UNCHANGED categories

NextCred ==
    \/ CallValidateApiKey
    \/ CallValidateDeployToken

SpecCred == InitCred /\ [][NextCred]_vars

(* PROPERTIES OF THE CREDENTIAL VALIDATORS                                 *)

HexDigits ==
    {"0", "1", "2", "3", "4", "5", "6", "7", "8", "9",
     "a", "b", "c", "d", "e", "f", "A", "B", "C", "D", "E", "F"}

\* s is prefix followed by exactly 64 hexadecimal digits of either case
MatchesFormat(s, prefix) ==
    /\ Len(s) = Len(prefix) + 64
    /\ \A i \in 1..Len(s) :
           IF i <= Len(prefix) THEN s[i] = prefix[i] ELSE s[i] \in HexDigits

ThrowsValidation(r) ==
    /\ r.k = "throw"
    /\ isShipError(r.v)
    /\ Kind(r.v) = Validation

\* C1: validateApiKey(s) returns normally iff s matches ^ship-[0-9a-f]{64}$
\* with the hex part in either case; for every other s it throws a ShipError
\* of kind Validation.
C1_ApiKeyFormat ==
    op = "validateApiKey" =>
        /\ ret = Return(Undefined) <=> MatchesFormat(arg[1], <<"s", "h", "i", "p", "-">>)
        /\ ret # Return(Undefined) => ThrowsValidation(ret)

C1_Witness ==
    /\ op = "validateApiKey"
    /\ ret = Return(Undefined)
    /\ Len(arg[1]) = 69
    /\ arg[1][6] = "F"
    /\ arg[1][7] = "a"

\* C2: validateDeployToken(s) returns normally iff s is "token-" followed by
\* exactly 64 hexadecimal characters of any case (70 characters in all), and
\* throws a ShipError of kind Validation for every other s.
C2_DeployTokenFormat ==
    op = "validateDeployToken" =>
        /\ ret = Return(Undefined)
               <=> (Len(arg[1]) = 70
                    /\ MatchesFormat(arg[1], <<"t", "o", "k", "e", "n", "-">>))
        /\ ret # Return(Undefined) => ThrowsValidation(ret)

C2_Witness ==
    /\ op = "validateDeployToken"
    /\ ret = Return(Undefined)
    /\ Len(arg[1]) = 70
    /\ arg[1][7] = "0"
    /\ arg[1][70] = "A"

(* API URL candidates                                                      *)

MaxUrlLen == 5

UrlPieces == UrlWords \cup {":", "/", "?", "#"}
ApiUrls == UNION {[1..n -> UrlPieces] : n \in 0..MaxUrlLen}

InitUrl ==
    /\ op = "init"
    /\ arg \in {<<u>> : u \in ApiUrls}
    /\ ret = Return(Undefined)
    /\ err = NoValue
    /\ payload = NoValue
    /\ origin = NoValue
    /\ categories = ERROR_CATEGORIES

CallValidateApiUrl ==
    /\ op = "init"
    /\ op' = "validateApiUrl"
    /\ ret' = validateApiUrl(arg[1])
    /\ err' = IF validateApiUrl(arg[1]).k = "throw" THEN validateApiUrl(arg[1]).v ELSE NoValue
    /\ UNCHANGED <<arg, payload, origin>>
    /\ UNCHANGED categories

NextUrl == CallValidateApiUrl

SpecUrl == InitUrl /\ [][NextUrl]_vars

(* PROPERTIES OF validateApiUrl AND isShipError                            *)

\* the parsed URL is an http(s) URL with an empty or root path that carries
\* neither a query string nor a fragment
PlainHttpRoot(u) ==
    /\ u.ok
    /\ u.scheme \in {"http", "https"}
    /\ u.pathname \in {"", "/"}
    /\ u.query \in {Null, Str("")}
    /\ u.fragment \in {Null, Str("")}

\* C3: validateApiUrl returns normally for every parseable absolute URL with
\* scheme http or https, an empty or "/" path, no query string and no
\* fragment; it throws a Validation ShipError for every input that does not
\* parse, has another scheme, a non-root path, a query string or a fragment.
C3_ApiUrlRules ==
    op = "validateApiUrl" =>
        /\ PlainHttpRoot(URL(arg[1])) => ret = Return(Undefined)
        /\ ~PlainHttpRoot(URL(arg[1])) => ThrowsValidation(ret)

C3_Witness ==
    /\ op = "validateApiUrl"
    /\ arg[1] = <<"https", ":", "/", "/", "ftp">>
    /\ URL(arg[1]).pathname = "/"
    /\ ret = Return(Undefined)

\* C4: whatever validateApiUrl throws is a ShipError of kind Validation: the
\* error of one of its own rule checks leaves it unchanged, and a failure of
\* the URL parser leaves it as the Validation error "API URL must be a valid
\* URL"; no other exception type leaves the function.
C4_ApiUrlErrors ==
    (op = "validateApiUrl" /\ ret.k = "throw") =>
        /\ isShipError(ret.v)
        /\ ret.v.cls = "ShipError"
        /\ Kind(ret.v) = Validation
        /\ Get(ret.v, "status") = Num(400)
        /\ URL(arg[1]).ok =>
               /\ ret.v = ApiUrlRules(arg[1]).v
               /\ Get(ret.v, "message") \in
                      {Str("API URL must use http:// or https:// protocol"),
                       Str("API URL must not contain a path"),
                       Str("API URL must not contain query parameters or fragments")}
        /\ ~URL(arg[1]).ok => Get(ret.v, "message") = Str("API URL must be a valid URL")

C4_Witness ==
    /\ op = "validateApiUrl"
    /\ arg[1] = <<"http", ":", "/", "/">>
    /\ ~URL(arg[1]).ok
    /\ ret.k = "throw"
    /\ Get(ret.v, "message") = Str("API URL must be a valid URL")

\* C7: isShipError(v) is true iff v is a non-null object with a name field
\* equal to "ShipError" and a status field present, whatever its value; the
\* class that built the object plays no part, so the object of another copy
\* of the package is recognised, and null, primitives and objects lacking
\* either field are not.
C7_StructuralRecogniser ==
    op = "isShipError" =>
        LET v == arg[1]
        IN  /\ ret.v = Bool(/\ v.t = "object"
                            /\ Has(v, "name")
                            /\ Get(v, "name") = Str("ShipError")
                            /\ Has(v, "status"))
            /\ v.t = "object" =>
                   \A c \in ProbeClasses :
                       ret.v = Bool(isShipError([v EXCEPT !.cls = c]))
            /\ v.t \notin {"object", "function"} => ret.v = Bool(FALSE)

C7_Witness ==
    /\ op = "isShipError"
    /\ arg[1].t = "object"
    /\ arg[1].cls = "ShipError@bundle2"
    /\ arg[1].props = ("name" :> Str("ShipError")) @@ ("status" :> Undefined)
    /\ ret.v = Bool(TRUE)

(* REGULAR EXPRESSIONS                                                     *)
(* A pattern between ^ and $ is a sequence of terms; a term repeats a      *)
(* character class, or a group of terms when sub is not empty, between min *)
(* and max times (max = -1: no upper limit).                               *)

Letters == {LowerCase[i] : i \in 1..26}
Digits == {"0", "1", "2", "3", "4", "5", "6", "7", "8", "9"}

Repeat(cls, min, max) == [cls |-> cls, sub |-> <<>>, min |-> min, max |-> max]
Group(sub, min, max) == [cls |-> {}, sub |-> sub, min |-> min, max |-> max]

\* the positions the matcher can stand at after matching the terms from one
\* of the positions P of s; ignoreCase is the i flag
RECURSIVE MatchSeq(_, _, _, _)
RECURSIVE MatchRep(_, _, _, _, _)
MatchSeq(terms, s, P, ignoreCase) ==
    IF terms = <<>> THEN P
    ELSE MatchSeq(Tail(terms), s, MatchRep(Head(terms), s, P, 0, ignoreCase), ignoreCase)
MatchRep(term, s, P, n, ignoreCase) ==
    IF P = {} THEN {}
    ELSE LET once ==
                 IF term.sub # <<>> THEN MatchSeq(term.sub, s, P, ignoreCase)
                 ELSE {p + 1 : p \in {q \in P :
                          /\ q <= Len(s)
                          /\ IF ignoreCase
                             THEN \E c \in term.cls : Canonicalize(c) = Canonicalize(s[q])
                             ELSE s[q] \in term.cls}}
         IN  (IF n >= term.min THEN P ELSE {})
             \cup (IF term.max = -1 \/ n < term.max
                   THEN MatchRep(term, s, once, n + 1, ignoreCase) ELSE {})

\* /^terms$/.test(s)
RegexTest(terms, s, ignoreCase) == (Len(s) + 1) \in MatchSeq(terms, s, {1}, ignoreCase)

(* DEPLOYMENT IDENTIFIERS                                                  *)

\* /^[a-z]+-[a-z]+-[a-z0-9]{7}$/
DeploymentPattern ==
    <<Repeat(Letters, 1, -1), Repeat({"-"}, 1, 1), Repeat(Letters, 1, -1),
      Repeat({"-"}, 1, 1), Repeat(Letters \cup Digits, 7, 7)>>

isDeployment_caseSensitive(input) == Bool(RegexTest(DeploymentPattern, input, FALSE))

isDeployment(input) == Bool(RegexTest(DeploymentPattern, input, TRUE))

\* the characters of a string literal
Chars(str) == [i \in 1..Len(str) |-> SubSeq(str, i, i)]

\* s.toLowerCase()
toLowerCase(s) ==
    [i \in 1..Len(s) |->
        IF \E j \in 1..26 : UpperCase[j] = s[i]
        THEN LowerCase[CHOOSE j \in 1..26 : UpperCase[j] = s[i]]
        ELSE s[i]]

\* s.lastIndexOf(ch), counted from 0; -1 when ch does not occur
lastIndexOf(s, ch) ==
    IF \E i \in 1..Len(s) : s[i] = ch
    THEN (CHOOSE i \in 1..Len(s) : s[i] = ch /\ \A h \in (i + 1)..Len(s) : s[h] # ch) - 1
    ELSE -1

(* MIME TYPE FILTERING                                                     *)

\* an allow-list that lets a shell script through
ALLOWED_MIME_TYPES_withShell ==
    {Chars(e) : e \in {"text/html", "image/", "application/x-sh"}}

\* the entries of the allow-list that the package's tests name
ALLOWED_MIME_TYPES ==
    {Chars(e) : e \in
        {"text/html", "text/css", "text/plain", "text/markdown", "text/javascript",
         "application/javascript", "application/json", "application/wasm",
         "application/pdf", "application/font-woff", "application/x-font-woff",
         "application/manifest+json", "model/gltf+json", "model/gltf-binary",
         "image/", "audio/", "video/", "font/"}}

isAllowedMimeType_ignoreCase(mimeType) ==
    Bool(\E allowed \in ALLOWED_MIME_TYPES : startsWith(toLowerCase(mimeType), allowed))

\* ALLOWED_MIME_TYPES.some(allowed => mimeType.startsWith(allowed))
isAllowedMimeType(mimeType) ==
    Bool(\E allowed \in ALLOWED_MIME_TYPES : startsWith(mimeType, allowed))

(* EXTENSION FILTERING                                                     *)

BLOCKED_EXTENSIONS ==
    {Chars(e) : e \in
        {"exe", "msi", "dll", "scr", "bat", "cmd", "com", "pif", "app", "deb", "rpm",
         "dmg", "iso", "img", "ps1", "vbs", "vbe", "ws", "wsf", "wsc", "wsh", "reg",
         "pkg", "mpkg", "jar", "jnlp", "apk", "crx", "lnk", "inf", "hta"}}

isBlockedExtension_trimDot(filename) ==
    LET name == IF filename # <<>> /\ filename[Len(filename)] = "."
                THEN SubSeq(filename, 1, Len(filename) - 1) ELSE filename
        dot == lastIndexOf(name, ".")
    IN  Bool(/\ dot # -1
             /\ toLowerCase(slice(name, dot + 1)) \in BLOCKED_EXTENSIONS)

isBlockedExtension_caseSensitive(filename) ==
    LET dot == lastIndexOf(filename, ".")
    IN  Bool(/\ dot # -1
             /\ dot # Len(filename) - 1
             /\ slice(filename, dot + 1) \in BLOCKED_EXTENSIONS)

\* the text after the last dot, lower-cased, looked up in the block-list;
\* a name without a dot or ending in a dot has no extension
isBlockedExtension(filename) ==
    LET dot == lastIndexOf(filename, ".")
    IN  Bool(/\ dot # -1
             /\ dot # Len(filename) - 1
             /\ toLowerCase(slice(filename, dot + 1)) \in BLOCKED_EXTENSIONS)

(* LABELS                                                                  *)

LabelSeparators == {"-", "_", "."}

\* a pattern that lets a label end in a separator
LABEL_PATTERN_trailing ==
    <<Repeat(Letters \cup Digits, 1, 1),
      Repeat(Letters \cup Digits \cup LabelSeparators, 0, -1)>>

\* a pattern that also limits the length
LABEL_PATTERN_capped ==
    <<Repeat(Letters \cup Digits, 1, 1),
      Group(<<Repeat(Letters \cup Digits \cup LabelSeparators, 0, 61),
              Repeat(Letters \cup Digits, 1, 1)>>, 0, 1)>>

\* /^[a-z0-9](?:[a-z0-9._-]*[a-z0-9])?$/
LABEL_PATTERN ==
    <<Repeat(Letters \cup Digits, 1, 1),
      Group(<<Repeat(Letters \cup Digits \cup LabelSeparators, 0, -1),
              Repeat(Letters \cup Digits, 1, 1)>>, 0, 1)>>

(* THE CALLER OF THE STRING CLASSIFIERS                                    *)
(* The caller holds one string and asks one classifier about it.           *)

MaxExts == 2
MaxLabelPieces == 4

\* two words, two separators and a run of one character in which at most
\* one position holds another character
DeploymentIds ==
    {w1 \o s1 \o w2 \o s2 \o CredBody(n, c, k, d) :
        w1 \in {<<>>, <<"a">>, <<"H", "a", "p", "p", "y">>, <<"c", "4", "t">>},
        s1 \in {<<"-">>, <<>>, <<"_">>},
        w2 \in {<<>>, <<"b">>, <<"C", "a", "t">>},
        s2 \in {<<"-">>, <<>>},
        n \in (0..MaxSlack) \cup ((7 - MaxSlack)..(7 + MaxSlack)),
        c \in {"a", "Z", "7"},
        k \in {0, 7}, d \in {"a", "Z", "7", "-", "\n"}}
    \cup {Chars(s) : s \in {"happy-cat-abc1234", "a-b-1234567", "Happy-Cat1"}}

\* a type, a slash or none, a subtype and a tail
MimeTypes ==
    {Chars(type \o sep \o subtype \o tail) :
        type \in {"", "text", "TEXT", "Text", "image", "IMAGE", "font", "application",
                  "not-a-mime-type"},
        sep \in {"/", ""},
        subtype \in {"", "html", "HTML", "Html", "png", "PNG", "json", "jsonp",
                     "x-msdownload", "x-executable", "x-sh", "x-bat", "x-shellscript",
                     "x-perl", "x-python", "x-font-woff"},
        tail \in {"", "; charset=utf-8", "; Charset=UTF-8", "/"}}

\* a stem, up to MaxExts dotted segments and a dot or none at the end
RECURSIVE Dotted(_)
Dotted(n) ==
    IF n = 0 THEN {<<>>}
    ELSE Dotted(n - 1)
         \cup {r \o <<".">> \o Chars(e) :
                  r \in Dotted(n - 1), e \in {"exe", "jpg", "txt", ""}}
FileNames ==
    {Chars(stem) \o r \o last \o dot :
        stem \in {"", "README", "image", "my file"},
        r \in Dotted(MaxExts - 1),
        last \in {<<>>} \cup
                 {<<".">> \o Chars(e) : e \in
                     {"exe", "EXE", "Exe", "DMG", "bat", "ps1", "jar", "hta", "com",
                      "html", "css", "js", "json", "png", "jpg", "svg", "woff2", "pdf",
                      "wasm", "parquet", "custom", "txt", "gitignore", "exe ", "ex"}},
        dot \in {<<>>, <<".">>}}
    \cup {Chars(s) : s \in {"virus.exe", "virus.EXE", "safe.exe.txt", "model.onnx"}}

\* up to MaxLabelPieces pieces, and runs of about a hundred characters
RECURSIVE Pieces(_)
Pieces(n) ==
    IF n = 0 THEN {<<>>}
    ELSE Pieces(n - 1)
         \cup {r \o Chars(e) : r \in Pieces(n - 1), e \in {"a", "z9", "-", "_", ".", " ", "A"}}
Labels ==
    Pieces(MaxLabelPieces)
    \cup {CredBody(n, c, k, d) :
            n \in (100 - MaxSlack)..(100 + MaxSlack), c \in {"a", "7"},
            k \in {0, 1, 50, 100}, d \in {"a", "-", ".", "A", " "}}
    \cup {Chars(s) : s \in {"prod", "staging", "v1.0.0", "feature-x", "test_env",
                            "release.candidate", "-prod", "prod-", "pr od", "PROD"}}

\* export const FileValidationStatus = { ... } as const
FileValidationStatus ==
    Obj("Object", [k \in {"PENDING", "PROCESSING_ERROR", "EMPTY_FILE",
                          "VALIDATION_FAILED", "READY"} |->
                   CASE k = "PENDING" -> Str("pending")
                     [] k = "PROCESSING_ERROR" -> Str("processing_error")
                     [] k = "EMPTY_FILE" -> Str("empty_file")
                     [] k = "VALIDATION_FAILED" -> Str("validation_failed")
                     [] k = "READY" -> Str("ready")])

\* member names read off FileValidationStatus
StatusNames ==
    {Chars(s) : s \in {"READY", "VALIDATION_FAILED", "EXCLUDED", "PROCESSING_ERROR",
                       "PENDING", "EMPTY_FILE"}}

Texts == DeploymentIds \cup MimeTypes \cup FileNames \cup Labels \cup StatusNames

InitText ==
    /\ op = "init"
    /\ arg \in {<<s>> : s \in Texts}
    /\ ret = Return(Undefined)
    /\ err = NoValue
    /\ payload = NoValue
    /\ origin = NoValue
    /\ categories = ERROR_CATEGORIES

CallIsDeployment ==
    /\ op = "init"
    /\ op' = "isDeployment"
    /\ ret' = Return(isDeployment(arg[1]))
    /\ UNCHANGED <<arg, err, payload, origin>>
    /\ UNCHANGED categories

CallIsAllowedMimeType ==
    /\ op = "init"
    /\ op' = "isAllowedMimeType"
    /\ ret' = Return(isAllowedMimeType(arg[1]))
    /\ UNCHANGED <<arg, err, payload, origin>>
    /\ UNCHANGED categories

CallIsBlockedExtension ==
    /\ op = "init"
    /\ op' = "isBlockedExtension"
    /\ ret' = Return(isBlockedExtension(arg[1]))
    /\ UNCHANGED <<arg, err, payload, origin>>
    /\ UNCHANGED categories

\* LABEL_PATTERN.test(label)
CallLabelPatternTest ==
    /\ op = "init"
    /\ op' = "LABEL_PATTERN.test"
    /\ ret' = Return(Bool(RegexTest(LABEL_PATTERN, arg[1], FALSE)))
    /\ UNCHANGED <<arg, err, payload, origin>>
    /\ UNCHANGED categories

\* FileValidationStatus[name]
ReadFileValidationStatus ==
    /\ op = "init"
    /\ op' = "FileValidationStatus"
    /\ ret' = Return(Get(FileValidationStatus, Text(arg[1])))
    /\ UNCHANGED <<arg, err, payload, origin>>
    /\ UNCHANGED categories

NextText ==
    \/ CallIsDeployment
    \/ CallIsAllowedMimeType
    \/ CallIsBlockedExtension
    \/ CallLabelPatternTest
    \/ ReadFileValidationStatus

SpecText == InitText /\ [][NextText]_vars

(* PROPERTIES OF THE DEPLOYMENT IDENTIFIERS                                *)

AsciiLetters == Letters \cup {UpperCase[i] : i \in 1..26}

\* s is letters, "-", letters, "-" and exactly seven letters or digits
DeploymentShape(s) ==
    \E i, j \in 1..Len(s) :
        /\ 1 < i /\ i + 1 < j /\ Len(s) = j + 7
        /\ s[i] = "-" /\ s[j] = "-"
        /\ \A k \in 1..Len(s) :
               \/ k \in {i, j}
               \/ s[k] \in AsciiLetters
               \/ k > j /\ s[k] \in Digits

\* C11: isDeployment(s) always returns a boolean and never throws; it is
\* true iff the whole of s is one or more letters, a hyphen, one or more
\* letters, a hyphen and exactly seven letters or digits, letters of either
\* case; "happy-cat-abc1234" and "a-b-1234567" are accepted, "Happy-Cat1"
\* is rejected.
C11_DeploymentFormat ==
    op = "isDeployment" =>
        /\ ret.k = "return"
        /\ ret.v = Bool(DeploymentShape(arg[1]))
        /\ Text(arg[1]) \in {"happy-cat-abc1234", "a-b-1234567"} => ret.v = Bool(TRUE)
        /\ Text(arg[1]) = "Happy-Cat1" => ret.v = Bool(FALSE)

C11_Witness ==
    /\ op = "isDeployment"
    /\ Text(arg[1]) = "Happy-Cat-aaaaaaZ"
    /\ ret.v = Bool(TRUE)

(* PROPERTIES OF THE MIME TYPE FILTER                                      *)

UpperCaseLetters == {UpperCase[i] : i \in 1..26}

\* some entry of the allow-list equals m or is the beginning of m
MatchesEntry(m) ==
    \E e \in ALLOWED_MIME_TYPES :
        \/ m = e
        \/ Len(e) <= Len(m) /\ \A i \in 1..Len(e) : m[i] = e[i]

ExecutableMimeTypes ==
    {"application/x-msdownload", "application/x-executable", "application/x-sh",
     "application/x-bat", "application/x-shellscript", "application/x-perl",
     "application/x-python"}

\* m is a type, a "/" and a subtype, neither of them empty
TypeSubtypeForm(m) == \E i \in 2..(Len(m) - 1) : m[i] = "/"

RECURSIVE LastSegment(_)
LastSegment(name) ==
    IF \A i \in 1..Len(name) : name[i] # "." THEN name
    ELSE LastSegment(Tail(name))

HasDot(name) == \E i \in 1..Len(name) : name[i] = "."

\* seg is a blocked extension written in any letter case
BlockedInAnyCase(seg) ==
    \E e \in BLOCKED_EXTENSIONS :
        /\ Len(e) = Len(seg)
        /\ \A i \in 1..Len(e) : Canonicalize(e[i]) = Canonicalize(seg[i])

\* C14: isBlockedExtension classifies a filename by its last extension
\* segment, letter case ignored: a name is blocked iff the text after its
\* last dot is a blocked extension in any letter case, so "virus.EXE" and
\* "image.jpg.exe" are blocked and "safe.exe.txt" is not.
C14_LastSegmentDecides ==
    op = "isBlockedExtension" =>
        /\ ret.v = Bool(HasDot(arg[1]) /\ BlockedInAnyCase(LastSegment(arg[1])))
        /\ Text(arg[1]) \in {"virus.EXE", "image.jpg.exe"} => ret.v = Bool(TRUE)
        /\ Text(arg[1]) = "safe.exe.txt" => ret.v = Bool(FALSE)

C14_Witness ==
    /\ op = "isBlockedExtension"
    /\ Text(arg[1]) = "image.jpg.EXE"
    /\ ret.v = Bool(TRUE)

WebExtensions ==
    {"html", "css", "js", "json", "png", "jpg", "svg", "woff2", "pdf", "wasm",
     "parquet", "custom"}

\* C15: isBlockedExtension never blocks a filename without a dot (the empty
\* name included), a filename ending in a bare dot, or a filename whose last
\* extension segment is a web or unknown extension such as html, css, js,
\* json, png, jpg, svg, woff2, pdf, wasm, parquet or custom.
C15_NeverBlocked ==
    /\ op = "isBlockedExtension"
    /\ \/ ~HasDot(arg[1])
       \/ arg[1][Len(arg[1])] = "."
       \/ Text(LastSegment(arg[1])) \in WebExtensions
    => ret.v = Bool(FALSE)

C15_Witness ==
    /\ op = "isBlockedExtension"
    /\ Text(arg[1]) = "README.exe."
    /\ ret.v = Bool(FALSE)

(* PROPERTIES OF THE LABEL PATTERN                                         *)

LabelExamples == {"prod", "v1.0.0", "feature-x", "test_env", "release.candidate"}

\* C16: every string LABEL_PATTERN accepts consists only of lowercase
\* letters, digits and the separators "-", "_" and ".", and neither starts
\* nor ends with a separator; a string containing whitespace or an uppercase
\* letter is rejected; "prod", "v1.0.0", "feature-x", "test_env" and
\* "release.candidate" are accepted.
C16_LabelFormat ==
    op = "LABEL_PATTERN.test" =>
        /\ ret.v = Bool(TRUE) =>
               /\ arg[1] # <<>>
               /\ \A i \in 1..Len(arg[1]) :
                      arg[1][i] \in Letters \cup Digits \cup {"-", "_", "."}
               /\ arg[1][1] \notin {"-", "_", "."}
               /\ arg[1][Len(arg[1])] \notin {"-", "_", "."}
        /\ (\E i \in 1..Len(arg[1]) : arg[1][i] \in UpperCaseLetters \cup {" ", "\n"})
               => ret.v = Bool(FALSE)
        /\ Text(arg[1]) \in LabelExamples => ret.v = Bool(TRUE)

C16_Witness ==
    /\ op = "LABEL_PATTERN.test"
    /\ Text(arg[1]) = "release.candidate"
    /\ ret.v = Bool(TRUE)

\* a non-empty string of lowercase letters and digits in which single
\* separators stand between them
PlainLabel(s) ==
    /\ s # <<>>
    /\ \A i \in 1..Len(s) :
           \/ s[i] \in Letters \cup Digits
           \/ /\ s[i] \in {"-", "_", "."}
              /\ 1 < i /\ i < Len(s)
              /\ s[i + 1] \in Letters \cup Digits

\* C17: LABEL_PATTERN never rejects a well-formed label for its length: a
\* label of one character, of a hundred lowercase letters or of any length
\* between and beyond is accepted.
C17_NoLengthLimit ==
    op = "LABEL_PATTERN.test" /\ PlainLabel(arg[1]) => ret.v = Bool(TRUE)

C17_Witness ==
    /\ op = "LABEL_PATTERN.test"
    /\ Len(arg[1]) = 100
    /\ \A i \in 1..100 : arg[1][i] = "a"
    /\ ret.v = Bool(TRUE)

(* LABEL SERIALIZATION                                                     *)
(* A JSON text is a string; it is read character by character.             *)

Arr(elems) == [t |-> "object", cls |-> "Array", elems |-> elems]

\* the character of s at position i, "" beyond its end
At(s, i) == IF 1 <= i /\ i <= Len(s) THEN SubSeq(s, i, i) ELSE ""

\* QuoteJSONString without the enclosing quotes
Escape_raw(s) == s

RECURSIVE Escape(_)
Escape(s) ==
    IF s = "" THEN ""
    ELSE (CASE At(s, 1) = "\"" -> "\\\""
            [] At(s, 1) = "\\" -> "\\\\"
            [] At(s, 1) = "\n" -> "\\n"
            [] OTHER -> At(s, 1))
         \o Escape(SubSeq(s, 2, Len(s)))

\* JSON.stringify(v) of a string, a number, null, an array of these or an
\* object without properties
RECURSIVE JSON_stringify(_)
RECURSIVE StringifyElements(_)
JSON_stringify(v) ==
    CASE v.t = "string" -> "\"" \o Escape(v.s) \o "\""
      [] v.t = "number" -> ToString(v.n)
      [] v.t = "null" -> "null"
      [] v.t = "object" /\ v.cls = "Array" -> "[" \o StringifyElements(v.elems) \o "]"
      [] OTHER -> "{}"
StringifyElements(elems) ==
    IF elems = <<>> THEN ""
    ELSE JSON_stringify(Head(elems))
         \o (IF Tail(elems) = <<>> THEN "" ELSE "," \o StringifyElements(Tail(elems)))

\* JSON white space
RECURSIVE SkipWs(_, _)
SkipWs(s, i) == IF At(s, i) \in {" ", "\n"} THEN SkipWs(s, i + 1) ELSE i

\* the string whose opening quote stands before position i
RECURSIVE ParseString(_, _, _)
ParseString(s, i, acc) ==
    CASE At(s, i) = "" -> ParseFailure
      [] At(s, i) = "\"" -> [ok |-> TRUE, v |-> Str(acc), i |-> i + 1]
      [] At(s, i) = "\\" ->
            IF At(s, i + 1) \in {"\"", "\\", "/"}
            THEN ParseString(s, i + 2, acc \o At(s, i + 1))
            ELSE IF At(s, i + 1) = "n" THEN ParseString(s, i + 2, acc \o "\n")
            ELSE ParseFailure
      [] At(s, i) = "\n" -> ParseFailure
      [] OTHER -> ParseString(s, i + 1, acc \o At(s, i))

\* the digits of an integer
RECURSIVE ParseNumber(_, _, _)
ParseNumber(s, i, n) ==
    IF At(s, i) \in Digits
    THEN ParseNumber(s, i + 1, 10 * n + (CHOOSE d \in 0..9 : ToString(d) = At(s, i)))
    ELSE [ok |-> TRUE, v |-> Num(n), i |-> i]

\* a JSON value at position i0: an array, a string, an integer, null or an
\* object (the texts have no ":", so the only object is the empty one)
RECURSIVE ParseValue(_, _)
RECURSIVE ParseArray(_, _, _)
ParseValue(s, i0) ==
    LET i == SkipWs(s, i0)
    IN  CASE At(s, i) = "[" -> ParseArray(s, i + 1, <<>>)
          [] At(s, i) = "\"" -> ParseString(s, i + 1, "")
          [] At(s, i) = "{" ->
                IF At(s, SkipWs(s, i + 1)) = "}"
                THEN [ok |-> TRUE, v |-> Obj("Object", NoProps), i |-> SkipWs(s, i + 1) + 1]
                ELSE ParseFailure
          [] At(s, i) = "0" -> [ok |-> TRUE, v |-> Num(0), i |-> i + 1]
          [] At(s, i) \in Digits \ {"0"} -> ParseNumber(s, i, 0)
          [] At(s, i) = "n" ->
                IF i + 3 <= Len(s) /\ SubSeq(s, i, i + 3) = "null"
                THEN [ok |-> TRUE, v |-> Null, i |-> i + 4]
                ELSE ParseFailure
          [] OTHER -> ParseFailure
ParseArray(s, i0, acc) ==
    LET i == SkipWs(s, i0)
    IN  IF acc = <<>> /\ At(s, i) = "]"
        THEN [ok |-> TRUE, v |-> Arr(<<>>), i |-> i + 1]
        ELSE LET r == ParseValue(s, i)
             IN  IF ~r.ok THEN ParseFailure
                 ELSE CASE At(s, SkipWs(s, r.i)) = "," ->
                               ParseArray(s, SkipWs(s, r.i) + 1, Append(acc, r.v))
                        [] At(s, SkipWs(s, r.i)) = "]" ->
                               [ok |-> TRUE, v |-> Arr(Append(acc, r.v)),
                                i |-> SkipWs(s, r.i) + 1]
                        [] OTHER -> ParseFailure

\* JSON.parse(text): the value, or a SyntaxError thrown
JSON_parse(text) ==
    LET r == ParseValue(text, 1)
    IN  IF r.ok /\ SkipWs(text, r.i) = Len(text) + 1
        THEN Return(r.v)
        ELSE Throw(Obj("SyntaxError", "message" :> Str("Unexpected token")))

serializeTags(tags) ==
    IF ~Truthy(tags) \/ Len(tags.elems) = 0 THEN Null
    ELSE Str(JSON_stringify(tags))

deserializeTags_single(tagsJson) ==
    IF ~Truthy(tagsJson) THEN Return(Undefined)
    ELSE LET parsed == JSON_parse(tagsJson.s)
         IN  IF parsed.k = "throw" THEN Return(Undefined)
             ELSE Return(IF parsed.v.t = "object" /\ parsed.v.cls = "Array"
                            /\ Len(parsed.v.elems) > 0
                         THEN Arr(<<Head(parsed.v.elems)>>) ELSE Undefined)

deserializeTags_noCatch(tagsJson) ==
    IF ~Truthy(tagsJson) THEN Return(Undefined)
    ELSE LET parsed == JSON_parse(tagsJson.s)
         IN  IF parsed.k = "throw" THEN parsed
             ELSE Return(IF parsed.v.t = "object" /\ parsed.v.cls = "Array"
                            /\ Len(parsed.v.elems) > 0
                         THEN parsed.v ELSE Undefined)

deserializeTags(tagsJson) ==
    IF ~Truthy(tagsJson) THEN Return(Undefined)
    ELSE LET parsed == JSON_parse(tagsJson.s)
         IN  IF parsed.k = "throw" THEN Return(Undefined)
             ELSE Return(IF parsed.v.t = "object" /\ parsed.v.cls = "Array"
                            /\ Len(parsed.v.elems) > 0
                         THEN parsed.v ELSE Undefined)

(* THE CALLER OF THE LABEL SERIALIZER                                      *)
(* The caller holds a label list or a transport value; origin is the list  *)
(* it serialized, payload the transport value it decoded.                  *)

MaxTags == 2
MaxJsonLen == 4

\* undefined, and the arrays of up to MaxTags strings
TagLists ==
    {Undefined} \cup
    {Arr(xs) : xs \in UNION {[1..n ->
        {Str(x) : x \in {"", "a", "\"", "\\", ",", "a\"", "\\,", "\\\"", "]", "v1.0.0"}}] :
        n \in 0..MaxTags}}

\* null, and the texts of up to MaxJsonLen pieces
Transports ==
    {Null} \cup
    {Str(Text(ps)) : ps \in UNION {[1..n ->
        {"[", "]", ",", "\"", "\\", "a", "1", "{", "}", " "}] : n \in 0..MaxJsonLen}}
    \cup {Str(x) : x \in {"not json", "null", "[null]", "[\"prod\",\"v1.0.0\"]",
                          "{ }", "[ 1 , [ ] ]", "[\"a\\n\"]", "0", "[01]"}}

InitTags ==
    /\ op = "init"
    /\ arg \in {<<v>> : v \in TagLists \cup Transports}
    /\ ret = Return(Undefined)
    /\ err = NoValue
    /\ payload = NoValue
    /\ origin = NoValue
    /\ categories = ERROR_CATEGORIES

\* the first call serializes the list the caller holds
CallSerializeTags ==
    /\ op = "init"
    /\ arg[1] \in TagLists
    /\ op' = "serializeTags"
    /\ ret' = Return(serializeTags(arg[1]))
    /\ origin' = arg[1]
    /\ UNCHANGED <<arg, err, payload>>
    /\ UNCHANGED categories

\* the caller decodes the transport value it holds or the one it produced
CallDeserializeTags ==
    /\ \/ op = "init" /\ arg[1] \in Transports /\ payload' = arg[1]
       \/ op = "serializeTags" /\ payload' = ret.v
    /\ op' = "deserializeTags"
    /\ arg' = <<payload'>>
    /\ ret' = deserializeTags(payload')
    /\ UNCHANGED <<err, origin>>
    /\ UNCHANGED categories

\* the caller serializes what it decoded
CallSerializeAgain ==
    /\ op = "deserializeTags"
    /\ op' = "serializeTags"
    /\ arg' = <<ret.v>>
    /\ ret' = Return(serializeTags(ret.v))
    /\ UNCHANGED <<err, payload, origin>>
    /\ UNCHANGED categories

NextTags ==
    \/ CallSerializeTags
    \/ CallDeserializeTags
    \/ CallSerializeAgain

SpecTags == InitTags /\ [][NextTags]_vars

(* PROPERTIES OF THE LABEL SERIALIZER                                      *)

NonEmptyList(v) == v.t = "object" /\ Len(v.elems) > 0

\* C18: deserializeTags(serializeTags(xs)) is xs for every non-empty array
\* of labels xs, and is undefined for the empty array and for undefined,
\* for which serializeTags returns null.
C18_RoundTrip ==
    op = "deserializeTags" /\ origin # NoValue =>
        /\ NonEmptyList(origin) => ret = Return(origin)
        /\ ~NonEmptyList(origin) => arg[1] = Null /\ ret = Return(Undefined)

C18_Witness ==
    /\ op = "deserializeTags"
    /\ origin = Arr(<<Str("a\""), Str("\\,")>>)
    /\ arg[1] = Str("[\"a\\\"\",\"\\\\,\"]")
    /\ ret = Return(origin)

\* C19: for every transport string x that serializeTags produced from a
\* non-empty list, serializeTags(deserializeTags(x)) is x again.
C19_TransportRoundTrip ==
    op = "serializeTags" /\ payload # NoValue /\ NonEmptyList(origin) =>
        /\ payload.t = "string"
        /\ payload = serializeTags(origin)
        /\ ret = Return(payload)

C19_Witness ==
    /\ op = "serializeTags"
    /\ origin = Arr(<<Str(","), Str("\\\"")>>)
    /\ payload = Str("[\",\",\"\\\\\\\"\"]")
    /\ ret = Return(payload)

\* C20: deserializeTags never throws; for null, the empty string, a text
\* that is not JSON, a JSON text that is not an array and the empty JSON
\* array it returns undefined, and it returns a list only when the text
\* decodes to a non-empty array, which is the list returned.
C20_DeserializeTotal ==
    op = "deserializeTags" =>
        /\ ret.k = "return"
        /\ arg[1] \in {Null, Str(""), Str("not json"), Str("[\"a\""), Str("{}"),
                       Str("\"a\""), Str("1"), Str("null"), Str("[]"), Str(" [ ]")}
               => ret.v = Undefined
        /\ arg[1].t = "string" /\ arg[1].s # "" /\ JSON_parse(arg[1].s).k = "throw"
               => ret.v = Undefined
        /\ ret.v # Undefined =>
               /\ NonEmptyList(ret.v)
               /\ JSON_parse(arg[1].s) = Return(ret.v)

C20_Witness ==
    /\ op = "deserializeTags"
    /\ origin = NoValue
    /\ arg[1] = Str("[\"a\"")
    /\ ret = Return(Undefined)

(* DOMAIN UTILITIES                                                        *)
(* A domain is a string value; its text is read with Len and SubSeq.       *)

\* s.endsWith(suffix)
endsWith(s, suffix) ==
    Len(s) >= Len(suffix) /\ SubSeq(s, Len(s) - Len(suffix) + 1, Len(s)) = suffix

\* a test for the root at the end of the domain without the dot before it
isPlatformDomain_noDot(domain, platformDomain) ==
    Bool(endsWith(domain.s, platformDomain.s))

isPlatformDomain(domain, platformDomain) ==
    Bool(endsWith(domain.s, "." \o platformDomain.s))

isCustomDomain(domain, platformDomain) ==
    Bool(~isPlatformDomain(domain, platformDomain).b)

\* domain.slice(0, -(platformDomain.length + 1)): a negative end counts from
\* the end of the string and stops at its beginning
\* extractSubdomain that slices off the root without the dot before it
extractSubdomain_keepDot(domain, platformDomain) ==
    IF ~isPlatformDomain(domain, platformDomain).b THEN Null
    ELSE Str(SubSeq(domain.s, 1, Len(domain.s) - Len(platformDomain.s)))

extractSubdomain(domain, platformDomain) ==
    IF ~isPlatformDomain(domain, platformDomain).b THEN Null
    ELSE LET end == Len(domain.s) - (Len(platformDomain.s) + 1)
         IN  Str(SubSeq(domain.s, 1, IF end < 0 THEN 0 ELSE end))

\* the generator of the earlier version of the file, with its own default
generateDeploymentUrl_statichost(deployment, sitesDomain) ==
    LET domain == IF Truthy(sitesDomain) THEN sitesDomain ELSE Str("statichost.com")
    IN  Str("https://" \o deployment.s \o "." \o domain.s)

generateDeploymentUrl(deployment, platformDomain) ==
    LET domain == IF Truthy(platformDomain) THEN platformDomain ELSE Str("shipstatic.com")
    IN  Str("https://" \o deployment.s \o "." \o domain.s)

generateDomainUrl(domain) == Str("https://" \o domain.s)

(* THE CALLER OF THE DOMAIN UTILITIES                                      *)
(* The caller holds a domain or deployment name and a platform root, which *)
(* is undefined when it is omitted; origin is the name a URL was made of.  *)

MaxDomainPieces == 3

DomainArgs ==
    {<<Str(Text(ps)), root>> :
        ps \in UNION {[1..n -> {"a", ".", "www", "dev", "shipstatic.dev"}] :
                         n \in 0..MaxDomainPieces},
        root \in {Undefined, Str(""), Str("."), Str("a"), Str("dev"), Str(".dev"),
                  Str("shipstatic.dev")}}

InitDomain ==
    /\ op = "init"
    /\ arg \in DomainArgs
    /\ ret = Return(Undefined)
    /\ err = NoValue
    /\ payload = NoValue
    /\ origin = NoValue
    /\ categories = ERROR_CATEGORIES

CallIsPlatformDomain ==
    /\ op = "init"
    /\ arg[2].t = "string"
    /\ op' = "isPlatformDomain"
    /\ ret' = Return(isPlatformDomain(arg[1], arg[2]))
    /\ UNCHANGED <<arg, err, payload, origin>>
    /\ UNCHANGED categories

CallIsCustomDomain ==
    /\ op = "init"
    /\ arg[2].t = "string"
    /\ op' = "isCustomDomain"
    /\ ret' = Return(isCustomDomain(arg[1], arg[2]))
    /\ UNCHANGED <<arg, err, payload, origin>>
    /\ UNCHANGED categories

\* the caller extracts from the domain it holds, or from the host of the
\* deployment URL it generated
CallExtractSubdomain ==
    /\ \/ op = "init" /\ arg[2].t = "string" /\ UNCHANGED <<arg, origin>>
       \/ /\ op = "generateDeploymentUrl"
          /\ arg[2].t = "string"
          /\ arg' = <<Str(SubSeq(ret.v.s, Len("https://") + 1, Len(ret.v.s))), arg[2]>>
          /\ origin' = arg[1]
    /\ op' = "extractSubdomain"
    /\ ret' = Return(extractSubdomain(arg'[1], arg'[2]))
    /\ UNCHANGED <<err, payload>>
    /\ UNCHANGED categories

CallGenerateDeploymentUrl ==
    /\ op = "init"
    /\ op' = "generateDeploymentUrl"
    /\ ret' = Return(generateDeploymentUrl(arg[1], arg[2]))
    /\ UNCHANGED <<arg, err, payload, origin>>
    /\ UNCHANGED categories

CallGenerateDomainUrl ==
    /\ op = "init"
    /\ op' = "generateDomainUrl"
    /\ arg' = <<arg[1]>>
    /\ ret' = Return(generateDomainUrl(arg[1]))
    /\ UNCHANGED <<err, payload, origin>>
    /\ UNCHANGED categories

NextDomain ==
    \/ CallIsPlatformDomain
    \/ CallIsCustomDomain
    \/ CallExtractSubdomain
    \/ CallGenerateDeploymentUrl
    \/ CallGenerateDomainUrl

SpecDomain == InitDomain /\ [][NextDomain]_vars

(* PROPERTIES OF THE DOMAIN UTILITIES                                      *)

\* d is some text followed by "." and p
EndsWithDotRoot(d, p) == \E h \in 0..Len(d) : d = SubSeq(d, 1, h) \o "." \o p

\* C21: isPlatformDomain(d, p) is true iff d ends with "." followed by p;
\* isCustomDomain(d, p) is its negation; extractSubdomain(d, p) is d without
\* the trailing "." and p when d is a platform domain and null when not.
C21_DomainClassification ==
    /\ op = "isPlatformDomain" =>
           ret.v = Bool(EndsWithDotRoot(arg[1].s, arg[2].s))
    /\ op = "isCustomDomain" =>
           ret.v = Bool(~EndsWithDotRoot(arg[1].s, arg[2].s))
    /\ op = "extractSubdomain" =>
           IF EndsWithDotRoot(arg[1].s, arg[2].s)
           THEN ret.v.t = "string" /\ ret.v.s \o "." \o arg[2].s = arg[1].s
           ELSE ret.v = Null

C21_Witness ==
    /\ op = "extractSubdomain"
    /\ origin = NoValue
    /\ arg = <<Str("www.shipstatic.dev"), Str("shipstatic.dev")>>
    /\ ret.v = Str("www")

MaxCallers == 2
Callers == 1..MaxCallers

\* a table to which isAuthError adds the kind it was asked about
categoriesAfter_memo(name, this, table) ==
    IF name = "isAuthError"
    THEN [table EXCEPT !.auth = @ \cup {Get(this, "type")}]
    ELSE table

\* the table after a call: the predicates only call has() on the sets, and
\* no other operation mentions the table
categoriesAfter(name, this, table) == table

Jobs ==
    LET errors == {validation(Str("x"), Undefined), network(Str("x"), Undefined),
                   authentication(Str("x"), Obj("Object", "internal" :> Str("y")))}
    IN  {<<name, e>> : name \in {"isClientError", "isNetworkError", "isAuthError",
                                 "toResponse"}, e \in errors}
        \cup {<<"fromResponse", toResponse(e)>> : e \in errors}
        \cup {<<"isDeployment", Chars(s)>> : s \in {"a-b-1234567", "Happy-Cat1"}}
        \cup {<<"serializeTags", v>> : v \in {Undefined, Arr(<<Str("a")>>)}}

InitConcurrent ==
    /\ \E job \in [Callers -> Jobs] :
           /\ op = [c \in Callers |-> job[c][1]]
           /\ arg = [c \in Callers |-> <<job[c][2]>>]
    /\ ret = [c \in Callers |-> NoValue]
    /\ err = NoValue
    /\ payload = NoValue
    /\ origin = NoValue
    /\ categories = ERROR_CATEGORIES

RunIsClientError ==
    \E c \in Callers :
        /\ op[c] = "isClientError" /\ ret[c] = NoValue
        /\ ret' = [ret EXCEPT ![c] = Return(Bool(isClientError(arg[c][1])))]
        /\ categories' = categoriesAfter("isClientError", arg[c][1], categories)
        /\ UNCHANGED <<op, arg, err, payload, origin>>

RunIsNetworkError ==
    \E c \in Callers :
        /\ op[c] = "isNetworkError" /\ ret[c] = NoValue
        /\ ret' = [ret EXCEPT ![c] = Return(Bool(isNetworkError(arg[c][1])))]
        /\ categories' = categoriesAfter("isNetworkError", arg[c][1], categories)
        /\ UNCHANGED <<op, arg, err, payload, origin>>

RunIsAuthError ==
    \E c \in Callers :
        /\ op[c] = "isAuthError" /\ ret[c] = NoValue
        /\ ret' = [ret EXCEPT ![c] = Return(Bool(isAuthError(arg[c][1])))]
        /\ categories' = categoriesAfter("isAuthError", arg[c][1], categories)
        /\ UNCHANGED <<op, arg, err, payload, origin>>

RunToResponse ==
    \E c \in Callers :
        /\ op[c] = "toResponse" /\ ret[c] = NoValue
        /\ ret' = [ret EXCEPT ![c] = Return(toResponse(arg[c][1]))]
        /\ categories' = categoriesAfter("toResponse", arg[c][1], categories)
        /\ UNCHANGED <<op, arg, err, payload, origin>>

RunFromResponse ==
    \E c \in Callers :
        /\ op[c] = "fromResponse" /\ ret[c] = NoValue
        /\ ret' = [ret EXCEPT ![c] = Return(fromResponse(arg[c][1]))]
        /\ categories' = categoriesAfter("fromResponse", arg[c][1], categories)
        /\ UNCHANGED <<op, arg, err, payload, origin>>

RunIsDeployment ==
    \E c \in Callers :
        /\ op[c] = "isDeployment" /\ ret[c] = NoValue
        /\ ret' = [ret EXCEPT ![c] = Return(isDeployment(arg[c][1]))]
        /\ categories' = categoriesAfter("isDeployment", arg[c][1], categories)
        /\ UNCHANGED <<op, arg, err, payload, origin>>

RunSerializeTags ==
    \E c \in Callers :
        /\ op[c] = "serializeTags" /\ ret[c] = NoValue
        /\ ret' = [ret EXCEPT ![c] = Return(serializeTags(arg[c][1]))]
        /\ categories' = categoriesAfter("serializeTags", arg[c][1], categories)
        /\ UNCHANGED <<op, arg, err, payload, origin>>

NextConcurrent ==
    \/ RunIsClientError
    \/ RunIsNetworkError
    \/ RunIsAuthError
    \/ RunToResponse
    \/ RunFromResponse
    \/ RunIsDeployment
    \/ RunSerializeTags

SpecConcurrent == InitConcurrent /\ [][NextConcurrent]_vars

(* PROPERTIES OF CONCURRENT CALLS                                          *)

\* the outcome of the call when it runs alone in a freshly loaded module
Alone(name, a) ==
    CASE name = "isClientError" ->
             Return(Bool(Get(a, "type") \in ERROR_CATEGORIES.client))
      [] name = "isNetworkError" ->
             Return(Bool(Get(a, "type") \in ERROR_CATEGORIES.network))
      [] name = "isAuthError" ->
             Return(Bool(Get(a, "type") \in ERROR_CATEGORIES.auth))
      [] name = "toResponse" -> Return(toResponse(a))
      [] name = "fromResponse" -> Return(fromResponse(a))
      [] name = "isDeployment" -> Return(isDeployment(a))
      [] name = "serializeTags" -> Return(serializeTags(a))

StatusValuesDistinct ==
    \A j, k \in DOMAIN FileValidationStatus.props :
        FileValidationStatus.props[j] = FileValidationStatus.props[k] => j = k

\* C24: FileValidationStatus defines READY = "ready", VALIDATION_FAILED =
\* "validation_failed", EXCLUDED = "excluded" and PROCESSING_ERROR =
\* "processing_error", and no two of its members have the same value.
C24_StatusValues ==
    /\ StatusValuesDistinct
    /\ op = "FileValidationStatus" =>
           /\ Text(arg[1]) = "READY" => ret.v = Str("ready")
           /\ Text(arg[1]) = "VALIDATION_FAILED" => ret.v = Str("validation_failed")
           /\ Text(arg[1]) = "EXCLUDED" => ret.v = Str("excluded")
           /\ Text(arg[1]) = "PROCESSING_ERROR" => ret.v = Str("processing_error")

(* PROPERTIES OF THE CREDENTIAL ERRORS                                     *)

\* the first rule s violates, in the order prefix, length, hex
FirstViolated(s, prefix) ==
    IF ~(Len(s) >= Len(prefix) /\ \A i \in 1..Len(prefix) : s[i] = prefix[i]) THEN "prefix"
    ELSE IF Len(s) # Len(prefix) + 64 THEN "length"
    ELSE IF \E i \in (Len(prefix) + 1)..Len(s) : s[i] \notin HexDigits THEN "hex"
    ELSE "none"

ApiKeyMessage ==
    [prefix |-> "API key must start with \"ship-\"",
     length |-> "API key must be 69 characters total (ship- + 64 hex chars)",
     hex    |-> "API key must contain 64 hexadecimal characters after \"ship-\" prefix"]

DeployTokenMessage ==
    [prefix |-> "Deploy token must start with \"token-\"",
     length |-> "Deploy token must be 70 characters total (token- + 64 hex chars)",
     hex    |-> "Deploy token must contain 64 hexadecimal characters after \"token-\" prefix"]

PairwiseDistinct(m) == \A j, k \in DOMAIN m : m[j] = m[k] => j = k

\* the call raised a Validation ShipError with status 400 and this message
RaisedValidation(message) ==
    /\ ThrowsValidation(ret)
    /\ err = ret.v
    /\ Get(err, "status") = Num(400)
    /\ Get(err, "message") = Str(message)

\* C25: validateApiKey and validateDeployToken check prefix, then total
\* length, then hexadecimal content, and raise at the first violated rule a
\* Validation ShipError with status 400 and that rule's message; the three
\* messages of a validator are pairwise distinct, so the earliest violated
\* rule is the one reported.
C25_FirstViolatedRule ==
    /\ PairwiseDistinct(ApiKeyMessage)
    /\ PairwiseDistinct(DeployTokenMessage)
    /\ op = "validateApiKey" =>
           LET rule == FirstViolated(arg[1], <<"s", "h", "i", "p", "-">>)
           IN  IF rule = "none" THEN ret = Return(Undefined)
               ELSE RaisedValidation(ApiKeyMessage[rule])
    /\ op = "validateDeployToken" =>
           LET rule == FirstViolated(arg[1], <<"t", "o", "k", "e", "n", "-">>)
           IN  IF rule = "none" THEN ret = Return(Undefined)
               ELSE RaisedValidation(DeployTokenMessage[rule])

\* a wrong prefix is reported although the length is wrong too
C25_Witness ==
    /\ op = "validateApiKey"
    /\ arg[1] = <<"t", "o", "k", "e", "n", "-", "g">>
    /\ Get(err, "message") = Str("API key must start with \"ship-\"")
    /\ Get(err, "status") = Num(400)

(* PROPERTIES OF validateApiUrl ON QUERY AND FRAGMENT DELIMITERS           *)

\* the input parses as an http or https URL that has a query or a fragment
\* component, empty or not (written with a "?" or a "#")
CarriesQueryOrFragment(input) ==
    /\ URL(input).ok
    /\ URL(input).scheme \in {"http", "https"}
    /\ (URL(input).query # Null \/ URL(input).fragment # Null)
    /\ \E i \in 1..Len(input) : input[i] \in {"?", "#"}

\* C26: validateApiUrl raises a Validation error for every http/https URL
\* written with a "?" or a "#", also when the query or fragment after the
\* delimiter is empty; no such URL is reported as valid.
C26_DelimiterRejected ==
    (op = "validateApiUrl" /\ CarriesQueryOrFragment(arg[1])) => ThrowsValidation(ret)

(* PROPERTIES OF REPEATED TRANSPORT                                        *)

\* C27: for every error value e of every kind, the internal-marker
\* Authentication errors included, fromResponse(toResponse(e)).toResponse()
\* equals toResponse(e), so every later hop carries the payload of the first;
\* and toResponse leaves e with the kind, message, status and details it had.
C27_StableTransport ==
    /\ (op = "fromResponse.toResponse" /\ origin # NoValue) =>
           /\ payload = toResponse(origin)
           /\ err = fromResponse(payload)
           /\ ret.v = payload
    /\ op = "toResponse" => (err = origin /\ SameFields(err, origin))

C27_Witness ==
    /\ op = "fromResponse.toResponse"
    /\ origin # NoValue
    /\ HasInternalMarker(origin)
    /\ Get(origin, "status") = Undefined
    /\ Get(err, "details") = Undefined
    /\ ret.v = payload
    /\ ret.v.details = Undefined

(* PROPERTIES OF THE RECOGNISER ON THE PACKAGE'S OWN ERRORS                *)

\* C28: isShipError(e) is true of every error value e built by the
\* constructor, by a factory (network, cancelled, file and config, which
\* carry no status code, included) or by fromResponse of a payload without a
\* status field: the status property is present on e even when its value is
\* undefined.
C28_OwnErrorsRecognised ==
    /\ err # NoValue => Has(err, "status")
    /\ (op = "isShipError" /\ err # NoValue) =>
           (arg[1] = err /\ ret.v = Bool(TRUE))

C28_Witness ==
    /\ op = "isShipError"
    /\ err # NoValue
    /\ Kind(err) = Network
    /\ Get(err, "status") = Undefined
    /\ arg[1] = err
    /\ ret.v = Bool(TRUE)

(* CONSISTENCY OF THE DOMAIN UTILITIES                                     *)

\* C29: extractSubdomain(d, p) is non-null exactly when isPlatformDomain(d, p),
\* and then extractSubdomain(d, p) + "." + p is d; for every deployment id and
\* non-empty root p the host of generateDeploymentUrl(id, p) is a platform
\* domain of p whose extracted subdomain is id; the bare root d = p is a
\* custom domain with no subdomain.
C29_DomainConsistency ==
    /\ op = "extractSubdomain" =>
           /\ ret.v # Null <=> isPlatformDomain(arg[1], arg[2]).b
           /\ ret.v # Null => ret.v.s \o "." \o arg[2].s = arg[1].s
           /\ arg[1] = arg[2] => ret.v = Null
           /\ (origin # NoValue /\ arg[2] # Str("")) =>
                  /\ arg[1] = Str(origin.s \o "." \o arg[2].s)
                  /\ isPlatformDomain(arg[1], arg[2]).b
                  /\ ret.v = origin
    /\ (op = "isCustomDomain" /\ arg[1] = arg[2]) => ret.v = Bool(TRUE)
    /\ (op = "isPlatformDomain" /\ arg[1] = arg[2]) => ret.v = Bool(FALSE)

C29_Witness ==
    /\ op = "extractSubdomain"
    /\ origin = Str("www.a")
    /\ arg = <<Str("www.a.dev"), Str("dev")>>
    /\ ret.v = Str("www.a")

(* EXCLUSIVENESS OF THE CREDENTIAL FORMATS                                 *)

\* r is a Validation ShipError with status 400 and this message, thrown
ThrowsWithMessage(r, message) ==
    /\ ThrowsValidation(r)
    /\ Get(r.v, "status") = Num(400)
    /\ Get(r.v, "message") = Str(message)

\* C30: no string is accepted by both validateApiKey and validateDeployToken:
\* a string that passes one validator makes the other raise a Validation error
\* at its prefix rule.
C30_FormatsExclusive ==
    /\ (op = "validateApiKey" /\ ret = Return(Undefined)) =>
           ThrowsWithMessage(validateDeployToken(arg[1]), DeployTokenMessage.prefix)
    /\ (op = "validateDeployToken" /\ ret = Return(Undefined)) =>
           ThrowsWithMessage(validateApiKey(arg[1]), ApiKeyMessage.prefix)

C30_Witness ==
    /\ op = "validateDeployToken"
    /\ ret = Return(Undefined)
    /\ Len(arg[1]) = 70
    /\ arg[1][7] = "a"
    /\ validateApiKey(arg[1]).k = "throw"

====
